---- MODULE Spec2Model ----
(***************************************************************************)
(* State-machine model of renderer/utils.py:                               *)
(*   silly_rasterizer               (painter's-algorithm rasterizer)       *)
(*   convert_spherical_to_cartesian (spherical -> cartesian)               *)
(*   look_at_rotation               (world -> view rotation)               *)
(*                                                                         *)
(* Floating-point values of the rasterizer are modelled as exact rationals *)
(* extended with the IEEE specials NaN and +-inf (rounding is not          *)
(* modelled).  The trigonometric and square-root code of the two camera    *)
(* utilities is modelled in fixed point.                                   *)
(*                                                                         *)
(* Of vertices_screen only the shape is state: the coordinates reach the   *)
(* program in one place, the polygon handed to cv2.fillConvexPoly, and the *)
(* set of pixels that polygon covers is chosen freely at every fill.       *)
(* Line 120 of the source ends in a stray character; the model reads the   *)
(* line without it.                                                        *)
(***************************************************************************)
EXTENDS Integers, Sequences, FiniteSets, TLC

VARIABLES
    \* ---- silly_rasterizer -------------------------------------------------
    z_values,   \* the caller's depth array (mutated in place by line 111)
    z_before,   \* history: the depth array as the caller passed it
    faces,      \* the caller's face array: sequence of index triples
    vshape,     \* vertices_screen.shape
    width,      \* requested image width
    height,     \* requested image height
    pc,         \* position of the call: idle, fill, returned, raised
    err,        \* the exception that ended the call, "" if none
    z_order,    \* result of np.argsort (0-based face positions)
    loopIdx,    \* position of the fill loop in z_order (1-based)
    image,      \* the output buffer: pixel -> <<c, c, c>>; <<>> before line 114
    fillLog,    \* history: one record per executed cv2.fillConvexPoly call
    \* ---- convert_spherical_to_cartesian -----------------------------------
    sph,        \* the caller's (N, 3) tensor of (r, theta, phi), fixed point
    sph_before, \* history: the tensor as it was before the first call
    degrees,    \* the degrees flag the caller passes on every call
    results,    \* history: the tensor returned by each call, in call order
    \* ---- look_at_rotation -------------------------------------------------
    camera_position, \* (N, 3) tensor, fixed point
    at_point,        \* <<>> for None, else a (1, 3) tensor
    up_axis,         \* <<>> for None, else a (1, 3) tensor
    R                \* the returned (N, 3, 3) tensor; <<>> before the call

rvars == <<z_values, z_before, faces, vshape, width, height, pc, err,
           z_order, loopIdx, image, fillLog>>

cvars == <<sph, sph_before, degrees, results>>

lvars == <<camera_position, at_point, up_axis, R>>

vars == <<rvars, cvars, lvars>>

----------------------------------------------------------------------------
(* Bounds of the model *)
MaxVerts == 3
MaxFaces == 2
MaxPoints == 2
MaxCalls == 2
MaxBatch == 2

\* <<height, width>> pairs the caller may request
ImageSizes == {<<1, 1>>, <<1, 2>>}

\* depth values the caller may pass (negative, zero, one, and a maximum # 1)
Depths == {-1, 0, 1, 2}

\* index triples the caller may pass as a face: valid ones, a negative index
\* that Python wraps, and indices outside the array in both directions
FaceTriples == {<<0, 1, 2>>, <<0, 0, 0>>, <<1, 1, 1>>, <<-1, 0, 0>>,
                <<0, 1, 10>>, <<-4, 0, 0>>}

----------------------------------------------------------------------------
(* Floating-point values: rationals n/d in lowest terms, NaN, +inf, -inf *)

Abs(x) == IF x < 0 THEN -x ELSE x

RECURSIVE GCD(_, _)
GCD(a, b) == IF b = 0 THEN a ELSE GCD(b, a % b)

Fin(n, d) ==
    LET g == GCD(Abs(n), Abs(d))
        s == IF d < 0 THEN -1 ELSE 1
    IN  [k |-> "fin", n |-> (s * n) \div g, d |-> (s * d) \div g]

NaN == [k |-> "nan", n |-> 0, d |-> 1]
PInf == [k |-> "inf", n |-> 1, d |-> 1]
NInf == [k |-> "inf", n |-> -1, d |-> 1]

FromInt(i) == Fin(i, 1)

Sign(x) == IF x.n < 0 THEN -1 ELSE 1

Inf(s) == IF s < 0 THEN NInf ELSE PInf

FNeg(a) == IF a.k = "nan" THEN NaN ELSE [a EXCEPT !.n = -a.n]

FAdd(a, b) ==
    IF a.k = "nan" \/ b.k = "nan" THEN NaN
    ELSE IF a.k = "inf" /\ b.k = "inf" THEN (IF a.n = b.n THEN a ELSE NaN)
    ELSE IF a.k = "inf" THEN a
    ELSE IF b.k = "inf" THEN b
    ELSE Fin(a.n * b.d + b.n * a.d, a.d * b.d)

FSub(a, b) == FAdd(a, FNeg(b))

FMul(a, b) ==
    IF a.k = "nan" \/ b.k = "nan" THEN NaN
    ELSE IF a.k = "inf" \/ b.k = "inf"
         THEN (IF a.n = 0 \/ b.n = 0 THEN NaN ELSE Inf(Sign(a) * Sign(b)))
    ELSE Fin(a.n * b.n, a.d * b.d)

FDiv(a, b) ==
    IF a.k = "nan" \/ b.k = "nan" THEN NaN
    ELSE IF a.k = "inf" THEN (IF b.k = "inf" THEN NaN ELSE Inf(Sign(a) * Sign(b)))
    ELSE IF b.k = "inf" THEN FromInt(0)
    ELSE IF b.n = 0 THEN (IF a.n = 0 THEN NaN ELSE Inf(Sign(a)))
    ELSE Fin(a.n * b.d, a.d * b.n)

\* IEEE comparisons: every comparison with NaN is false
FLt(a, b) ==
    IF a.k = "nan" \/ b.k = "nan" THEN FALSE
    ELSE IF a.k = "inf" THEN a.n < 0 /\ b # NInf
    ELSE IF b.k = "inf" THEN b.n > 0
    ELSE a.n * b.d < b.n * a.d

FEq(a, b) == a.k # "nan" /\ b.k # "nan" /\ a = b

IsNaN(a) == a.k = "nan"

----------------------------------------------------------------------------
(* silly_rasterizer *)

\* numpy indexing of a length-n array: indices -n .. n-1 are accepted and a
\* negative index counts from the end; anything else raises IndexError
IndexOK(i, n) == -n <= i /\ i < n

At(arr, i) == arr[IF i < 0 THEN Len(arr) + i + 1 ELSE i + 1]

FaceOK(f, n) == \A c \in 1..3 : IndexOK(f[c], n)

\* the shapes the caller's vertex array may have for n depth values
VShapes(n) == {<<n, 2, 3>>, <<n, 2>>, <<n + 1, 2, 3>>, <<n, 3, 3>>}

\* lines 105-109: the first failing statement decides the exception; "" if
\* all five assertions pass.  (faces is a sequence of triples, so
\* faces.shape[1] == 3 on line 108 holds for every input of the model.)
AssertFailure(vs, z, fs) ==
    IF vs[1] # Len(z) THEN "AssertionError"
    ELSE IF Len(vs) < 2 THEN "IndexError"
    ELSE IF vs[2] # 2 THEN "AssertionError"
    ELSE IF Len(vs) < 3 THEN "IndexError"
    ELSE IF vs[3] # 3 THEN "AssertionError"
    ELSE IF Len(fs) # Len(z) THEN "AssertionError"
    ELSE ""

\* z_values.max() of a non-empty array (NaN propagates)
RECURSIVE MaxOf(_)
MaxOf(z) ==
    IF Len(z) = 1 THEN z[1]
    ELSE LET m == MaxOf(Tail(z))
         IN  IF IsNaN(z[1]) \/ IsNaN(m) THEN NaN
             ELSE IF FLt(m, z[1]) THEN z[1] ELSE m

\* line 111: z_values /= z_values.max()
Normalized(z) == [x \in 1..Len(z) |-> FDiv(z[x], MaxOf(z))]

FaceSum(z, f) == FAdd(FAdd(At(z, f[1]), At(z, f[2])), At(z, f[3]))

\* line 112: the sort key of a face
SortKeyAscending(z, f) == FDiv(FaceSum(z, f), FromInt(3))

SortKey(z, f) == FDiv(FaceSum(z, f), FromInt(-3))

\* the order np.argsort puts two keys in: ascending, NaN last
KeyBefore(x, y) ==
    IF IsNaN(x) THEN FALSE
    ELSE IF IsNaN(y) THEN TRUE
    ELSE FLt(x, y)

FacePermutations(n) ==
    {p \in [1..n -> 0..(n - 1)] : \A a, b \in 1..n : a # b => p[a] # p[b]}

\* line 112: np.argsort with its default kind ("quicksort"), which numpy
\* documents as not stable: every permutation that sorts the keys is a
\* possible result
ArgSorts(keys) ==
    {p \in FacePermutations(Len(keys)) :
        \A a, b \in 1..Len(keys) :
            a < b => ~KeyBefore(keys[p[b] + 1], keys[p[a] + 1])}

Keys(z, fs) == [x \in 1..Len(fs) |-> SortKey(z, fs[x])]

\* line 119
AvgZ(z, f) == FDiv(FaceSum(z, f), FromInt(3))

Trunc(v) == IF v.n >= 0 THEN v.n \div v.d ELSE -((-v.n) \div v.d)

\* conversion of a float to np.uint32 (line 120): the set of words the
\* conversion can produce.  A 32-bit word w is represented by the integer
\* congruent to it modulo 2^32 that lies in -2^31 .. 2^31 - 1, so the words
\* 0..255 are the integers 0..255.  A value that truncates to a word is
\* converted to it.  The conversion of NaN, of an infinity and of a value
\* of -1 or less is undefined in C: builds either reduce the truncated
\* value modulo 2^32 (0 for NaN and the infinities) or saturate.
ToUint32(v) ==
    IF v.k = "nan" THEN {0}
    ELSE IF v.k = "inf" THEN (IF v.n > 0 THEN {0, -1} ELSE {0})
    ELSE IF Trunc(v) >= 0 THEN {Trunc(v)}
    ELSE {Trunc(v), 0}

\* line 120: 255 * (1 - avg_z) stored as np.uint32
FaceColor(avg) ==
    ToUint32(FMul(FromInt(255), FSub(FromInt(1), avg)))

Pixels(h, w) == (0..(h - 1)) \X (0..(w - 1))

\* line 114
Zeros(h, w) == [p \in Pixels(h, w) |-> <<0, 0, 0>>]

\* line 122: cv2.fillConvexPoly writes the colour to every pixel of the
\* polygon, here the set cover, and leaves the other pixels alone
FillConvexPoly(img, cover, color) ==
    [p \in DOMAIN img |-> IF p \in cover THEN <<color, color, color>> ELSE img[p]]

SeqsUpTo(S, n) == UNION {[1..m -> S] : m \in 0..n}

\* the two camera utilities before any call to them
ConvertIdle ==
    /\ sph = <<>>
    /\ sph_before = <<>>
    /\ degrees = FALSE
    /\ results = <<>>

LookAtIdle ==
    /\ camera_position = <<>>
    /\ at_point = <<>>
    /\ up_axis = <<>>
    /\ R = <<>>

RenderIdle ==
    /\ z_before = <<>>
    /\ z_values = <<>>
    /\ faces = <<>>
    /\ vshape = <<0, 2, 3>>
    /\ height = 1
    /\ width = 1
    /\ pc = "idle"
    /\ err = ""
    /\ z_order = <<>>
    /\ loopIdx = 0
    /\ image = <<>>
    /\ fillLog = <<>>

\* The calls of the model.  A mesh in the shape the assertions accept (as
\* many faces as depths, vertices of shape (n, 2, 3)) has any depths and any
\* faces; a call with another vertex shape or with counts that differ has
\* one depth value for all its vertices.
MeshInputs ==
    {m \in [z : SeqsUpTo({FromInt(d) : d \in Depths}, MaxVerts),
            f : SeqsUpTo(FaceTriples, MaxFaces)] :
        Len(m.z) # Len(m.f) => \A x \in 1..Len(m.z) : m.z[x] = m.z[1]}

RenderInit ==
    /\ \E m \in MeshInputs :
           /\ z_before = m.z
           /\ faces = m.f
           /\ vshape \in IF Len(m.z) = Len(m.f)
                         THEN VShapes(Len(m.z))
                         ELSE {<<Len(m.z), 2, 3>>, <<Len(m.z), 2>>}
    /\ z_values = z_before
    /\ \E hw \in ImageSizes : height = hw[1] /\ width = hw[2]
    /\ pc = "idle"
    /\ err = ""
    /\ z_order = <<>>
    /\ loopIdx = 0
    /\ image = <<>>
    /\ fillLog = <<>>
    /\ ConvertIdle
    /\ LookAtIdle

\* lines 105-109: an assertion fails
RenderAssertFail ==
    /\ pc = "idle"
    /\ AssertFailure(vshape, z_values, faces) # ""
    /\ pc' = "raised"
    /\ err' = AssertFailure(vshape, z_values, faces)
    /\ UNCHANGED <<z_values, z_before, faces, vshape, width, height,
                   z_order, loopIdx, image, fillLog>>
    /\ UNCHANGED <<cvars, lvars>>

\* line 111: max() of an empty array raises ValueError
RenderEmptyMax ==
    /\ pc = "idle"
    /\ AssertFailure(vshape, z_values, faces) = ""
    /\ Len(z_values) = 0
    /\ pc' = "raised"
    /\ err' = "ValueError"
    /\ UNCHANGED <<z_values, z_before, faces, vshape, width, height,
                   z_order, loopIdx, image, fillLog>>
    /\ UNCHANGED <<cvars, lvars>>

\* lines 111-112: the depths are rescaled in place, then the key of a face
\* with an index outside the array raises IndexError
RenderBadIndex ==
    /\ pc = "idle"
    /\ AssertFailure(vshape, z_values, faces) = ""
    /\ Len(z_values) > 0
    /\ \E x \in 1..Len(faces) : ~FaceOK(faces[x], Len(z_values))
    /\ z_values' = Normalized(z_values)
    /\ pc' = "raised"
    /\ err' = "IndexError"
    /\ UNCHANGED <<z_before, faces, vshape, width, height,
                   z_order, loopIdx, image, fillLog>>
    /\ UNCHANGED <<cvars, lvars>>

\* lines 111-114: rescale in place, sort the faces, allocate the image
RenderStart ==
    /\ pc = "idle"
    /\ AssertFailure(vshape, z_values, faces) = ""
    /\ Len(z_values) > 0
    /\ \A x \in 1..Len(faces) : FaceOK(faces[x], Len(z_values))
    /\ z_values' = Normalized(z_values)
    /\ z_order' \in ArgSorts(Keys(Normalized(z_values), faces))
    /\ image' = Zeros(height, width)
    /\ loopIdx' = 1
    /\ pc' = "fill"
    /\ UNCHANGED <<z_before, faces, vshape, width, height, err, fillLog>>
    /\ UNCHANGED <<cvars, lvars>>

\* lines 116-122: one iteration of the fill loop
RenderFill ==
    /\ pc = "fill"
    /\ loopIdx <= Len(z_order)
    /\ LET face == faces[z_order[loopIdx] + 1]
           avg_z == AvgZ(z_values, face)
       IN  \E color \in FaceColor(avg_z), cover \in SUBSET DOMAIN image :
               /\ image' = FillConvexPoly(image, cover, color)
               /\ fillLog' = Append(fillLog,
                                    [face |-> z_order[loopIdx], avg |-> avg_z,
                                     color |-> color, cover |-> cover])
    /\ loopIdx' = loopIdx + 1
    /\ UNCHANGED <<z_values, z_before, faces, vshape, width, height,
                   pc, err, z_order>>
    /\ UNCHANGED <<cvars, lvars>>

\* line 124
RenderReturn ==
    /\ pc = "fill"
    /\ loopIdx > Len(z_order)
    /\ pc' = "returned"
    /\ UNCHANGED <<z_values, z_before, faces, vshape, width, height,
                   err, z_order, loopIdx, image, fillLog>>
    /\ UNCHANGED <<cvars, lvars>>

RenderNext ==
    \/ RenderAssertFail
    \/ RenderEmptyMax
    \/ RenderBadIndex
    \/ RenderStart
    \/ RenderFill
    \/ RenderReturn

SpecRender == RenderInit /\ [][RenderNext]_vars

----------------------------------------------------------------------------
(* Fixed-point reals of the two camera utilities: the real x is the integer *)
(* x * Scale, products and quotients are truncated toward zero              *)

Scale == 1000

Fx(i) == i * Scale

\* truncating division of integers
TDiv(a, b) ==
    IF (a >= 0) = (b > 0) THEN Abs(a) \div Abs(b) ELSE -(Abs(a) \div Abs(b))

FxMul(a, b) == TDiv(a * b, Scale)

\* pi and pi/2 in fixed point
FxPi == TDiv(355 * Scale, 113)

FxHalfPi == TDiv(355 * Scale, 226)

\* sin of y for -pi/2 <= y <= pi/2: Taylor polynomial of degree 7
SinSeries(y) ==
    LET y2 == FxMul(y, y)
        t3 == TDiv(FxMul(y2, y), 6)
        t5 == TDiv(FxMul(t3, y2), 20)
        t7 == TDiv(FxMul(t5, y2), 42)
    IN  y - t3 + t5 - t7

\* torch.sin: reduce the argument to -pi/2 .. pi/2, then the series; the
\* rounding of the series is kept from leaving -1 .. 1
Sin(x) ==
    LET r == x % (2 * FxPi)
        v == IF r <= FxHalfPi THEN SinSeries(r)
             ELSE IF r <= FxPi + FxHalfPi THEN SinSeries(FxPi - r)
             ELSE SinSeries(r - 2 * FxPi)
    IN  IF v > Scale THEN Scale ELSE IF v < -Scale THEN -Scale ELSE v

\* torch.cos
Cos(x) == Sin(x + FxHalfPi)

----------------------------------------------------------------------------
(* convert_spherical_to_cartesian *)

\* line 27: math.pi / 180.0 * v
DegToRad(v) == TDiv(v * 1745, 100000)

\* line 27: the slice assignment writes the scaled angles back into columns
\* 1 and 2 of the caller's tensor
ScaledInPlace(t) ==
    [x \in 1..Len(t) |-> <<t[x][1], DegToRad(t[x][2]), DegToRad(t[x][3])>>]

\* lines 29-37
Cartesian(t) ==
    [x \in 1..Len(t) |->
        LET dist == t[x][1]
            elev == t[x][2]
            azim == t[x][3]
        IN  << FxMul(FxMul(dist, Sin(elev)), Cos(azim)),
               FxMul(FxMul(dist, Sin(elev)), Sin(azim)),
               FxMul(dist, Cos(elev)) >>]

\* the spherical points a caller may pass: radius, elevation, azimuth
Radii == {0, 1, 2}

Angles == {0, 45, 90, 180}

SphericalPoints == {<<Fx(r), Fx(e), Fx(a)>> : r \in Radii, e \in Angles, a \in Angles}

ConvertInit ==
    /\ sph_before \in UNION {[1..n -> SphericalPoints] : n \in 1..MaxPoints}
    /\ sph = sph_before
    /\ degrees \in BOOLEAN
    /\ results = <<>>
    /\ RenderIdle
    /\ LookAtIdle

\* one call of convert_spherical_to_cartesian(sph, degrees), lines 23-37.
\* (sph is a sequence of triples, so both assertions hold.)
Convert ==
    /\ Len(results) < MaxCalls
    /\ LET t == IF degrees THEN ScaledInPlace(sph) ELSE sph
       IN  /\ sph' = t
           /\ results' = Append(results, Cartesian(t))
    /\ UNCHANGED <<sph_before, degrees>>
    /\ UNCHANGED <<rvars, lvars>>

ConvertNext == Convert

SpecConvert == ConvertInit /\ [][ConvertNext]_vars

----------------------------------------------------------------------------
(* look_at_rotation *)

Dot(a, b) == a[1] * b[1] + a[2] * b[2] + a[3] * b[3]

VSub(a, b) == <<a[1] - b[1], a[2] - b[2], a[3] - b[3]>>

\* torch.cross of two 3-vectors
Cross(a, b) ==
    << FxMul(a[2], b[3]) - FxMul(a[3], b[2]),
       FxMul(a[3], b[1]) - FxMul(a[1], b[3]),
       FxMul(a[1], b[2]) - FxMul(a[2], b[1]) >>

\* integer square root by Newton's iteration
RECURSIVE Newton(_, _)
Newton(n, x) ==
    LET y == (x + n \div x) \div 2
    IN  IF y >= x THEN x ELSE Newton(n, y)

ISqrt(n) == IF n = 0 THEN 0 ELSE Newton(n, n)

\* the 2-norm of a fixed-point vector, in fixed point
Norm(v) == ISqrt(Dot(v, v))

\* F.normalize(v, eps=1e-5) = v / max(||v||, eps).  eps is below the
\* resolution of the fixed point: a norm of 0 is replaced by eps, and the
\* quotient 0 / eps is 0
Normalize(v) ==
    IF Norm(v) = 0 THEN <<0, 0, 0>>
    ELSE <<TDiv(v[1] * Scale, Norm(v)), TDiv(v[2] * Scale, Norm(v)),
           TDiv(v[3] * Scale, Norm(v))>>

\* atol = 5e-3 of line 82, in fixed point
Atol == 5

\* line 82: torch.isclose(x_axis, 0, atol=5e-3).all(dim=1)
IsClose(v) == \A c \in 1..3 : Abs(v[c]) <= Atol

\* lines 73-77: the defaults
DefaultUp == <<(<<Fx(0), Fx(0), Fx(1)>>)>>

DefaultAt == <<(<<Fx(0), Fx(0), Fx(0)>>)>>

\* lines 79-81
ZAxis(cam, at) == Normalize(VSub(at, cam))

XAxisFirst(up, z) == Normalize(Cross(up, z))

YAxis(z, x) == Normalize(Cross(z, x))

\* lines 82-87: the replacement of an x axis close to zero
XAxis(up, z) ==
    LET x == XAxisFirst(up, z)
        y == YAxis(z, x)
    IN  IF IsClose(x) THEN Normalize(Cross(y, z)) ELSE x

\* lines 88-89: rows x, y, z, then transposed: R[r][c] is component r of
\* axis c
Rotation(cam, at, up) ==
    LET z == ZAxis(cam, at)
        x == XAxis(up, z)
        y == YAxis(z, XAxisFirst(up, z))
        rows == <<x, y, z>>
    IN  [r \in 1..3 |-> [c \in 1..3 |-> rows[c][r]]]

\* lines 70-89 for the whole batch; a (1, 3) at_point or up_axis is
\* broadcast over the batch
LookAtRotation(cams, at, up) ==
    LET a == IF at = <<>> THEN DefaultAt ELSE at
        u == IF up = <<>> THEN DefaultUp ELSE up
    IN  [x \in 1..Len(cams) |-> Rotation(cams[x], a[1], u[1])]

CameraCoords == {-5, 0, 5}

CameraPositions == {<<Fx(a), Fx(b), Fx(c)>> : a, b, c \in CameraCoords}

LookAtInit ==
    /\ camera_position \in UNION {[1..n -> CameraPositions] : n \in 1..MaxBatch}
    /\ at_point \in {<<>>, <<(<<Fx(0), Fx(5), Fx(0)>>)>>}
    /\ up_axis \in {<<>>, <<(<<Fx(0), Fx(1), Fx(0)>>)>>}
    /\ R = <<>>
    /\ RenderIdle
    /\ ConvertIdle

\* one call of look_at_rotation(camera_position, at_point, up_axis)
LookAt ==
    /\ R = <<>>
    /\ R' = LookAtRotation(camera_position, at_point, up_axis)
    /\ UNCHANGED <<camera_position, at_point, up_axis>>
    /\ UNCHANGED <<rvars, cvars>>

LookAtNext == LookAt

SpecLookAt == LookAtInit /\ [][LookAtNext]_vars

----------------------------------------------------------------------------
(* Claims about silly_rasterizer, checked under SpecRender *)

Triple(c) == <<c, c, c>>

\* the fills (positions in fillLog) whose polygon covers pixel p
Covering(p) == {a \in 1..Len(fillLog) : p \in fillLog[a].cover}

\* does some face of the call hold an index outside 0 .. vertexCount-1 ?
SomeIndexOutOfRange ==
    \E x \in 1..Len(faces) : \E c \in 1..3 :
        faces[x][c] < 0 \/ faces[x][c] >= Len(z_values)

\* the caller's maximum depth is a positive number
PositiveMax == z_before # <<>> /\ FLt(FromInt(0), MaxOf(z_before))

\* C1: the faces are filled in order of non-increasing average normalized
\* depth (no fill has a strictly greater average than a fill before it,
\* compared as the floats compare), every face is filled when the call
\* returns, and then every pixel covered by at least one face holds the
\* colour of a covering face than which no covering face has a strictly
\* smaller average normalized depth, whatever the order of the face list.
C1_PainterOrder ==
    /\ \A a, b \in 1..Len(fillLog) :
           a < b => ~FLt(fillLog[a].avg, fillLog[b].avg)
    /\ pc = "returned" =>
           /\ Len(fillLog) = Len(faces)
           /\ \A p \in DOMAIN image :
                  Covering(p) # {} =>
                      \E a \in Covering(p) :
                          /\ \A b \in Covering(p) :
                                 ~FLt(fillLog[b].avg, fillLog[a].avg)
                          /\ image[p] = Triple(fillLog[a].color)

\* C1 witness: the call has returned, and a pixel is covered by two faces of
\* different average depth of which the nearer one came first in the face
\* list and was filled last.
C1_Witness ==
    /\ pc = "returned"
    /\ \E p \in DOMAIN image : \E a, b \in Covering(p) :
           /\ a < b
           /\ fillLog[a].face > fillLog[b].face
           /\ FLt(fillLog[b].avg, fillLog[a].avg)
           /\ image[p] = Triple(fillLog[b].color)
           /\ fillLog[a].color # fillLog[b].color

\* C5: a mesh of three 2D vertices, three equal depths d and the single face
\* (0,1,2) is rendered: the call does not raise, and the covered pixels of the
\* returned image are (0,0,0) for d = 1.0 and (255,255,255) for d = 0.0.
C5_SingleTriangleRendered ==
    (/\ vshape = <<3, 2>>
     /\ faces = <<(<<0, 1, 2>>)>>
     /\ \E d \in {0, 1} : z_before = <<FromInt(d), FromInt(d), FromInt(d)>>)
    => /\ pc # "raised"
       /\ pc = "returned" =>
              \A p \in DOMAIN image :
                  Covering(p) # {} =>
                      image[p] = Triple(IF z_before[1] = FromInt(1) THEN 0 ELSE 255)

\* C6: when a face holds an index outside 0 .. vertexCount-1, the call does
\* not return normally and writes no pixel.
C6_BadIndexRejected ==
    SomeIndexOutOfRange => (pc # "returned" /\ fillLog = <<>>)

\* For comparison: an index outside -vertexCount .. vertexCount-1 ends the
\* call with IndexError before the image exists.
IndexErrorBeforeAnyWrite ==
    (pc # "idle" /\ AssertFailure(vshape, z_before, faces) = "" /\ z_before # <<>>
        /\ \E x \in 1..Len(faces) : ~FaceOK(faces[x], Len(z_before)))
    => (pc = "raised" /\ err = "IndexError" /\ image = <<>> /\ fillLog = <<>>)

\* C7: a call with an empty face list (and arrays that pass the assertions)
\* does not raise, and returns an all-zero image of the requested height and
\* width.
C7_EmptyFacesZeroImage ==
    (faces = <<>> /\ AssertFailure(vshape, z_before, faces) = "") =>
        /\ pc # "raised"
        /\ pc = "returned" =>
               /\ DOMAIN image = Pixels(height, width)
               /\ \A p \in DOMAIN image : image[p] = <<0, 0, 0>>

\* C8: for a mesh whose indices are all in range and whose maximum depth is
\* positive, every channel of every pixel of the image is in 0..255.
C8_ChannelsInByteRange ==
    (~SomeIndexOutOfRange /\ PositiveMax) =>
        \A p \in DOMAIN image : \A c \in 1..3 : image[p][c] \in 0..255

\* C9: when the call has returned (for a mesh whose indices are all in range
\* and whose maximum depth is positive), the caller's depth values are the
\* values that were passed in.
C9_InputsUntouched ==
    (pc = "returned" /\ ~SomeIndexOutOfRange /\ PositiveMax)
        => z_values = z_before

\* C10: two faces of equal average normalized depth are filled in the order
\* in which they appear in the face list (for a mesh whose indices are all
\* in range and whose maximum depth is positive).
C10_StableSort ==
    (~SomeIndexOutOfRange /\ PositiveMax) =>
        \A a, b \in 1..Len(fillLog) :
            (a < b /\ FEq(fillLog[a].avg, fillLog[b].avg))
                => fillLog[a].face < fillLog[b].face

----------------------------------------------------------------------------
(* Claims about convert_spherical_to_cartesian, checked under SpecConvert *)

\* C2: after a call, the caller's input tensor holds the values it held
\* before the call.
C2_InputNotMutated ==
    Len(results) >= 1 => sph = sph_before

\* C3: two successive calls on the same tensor with the same degrees flag
\* return identical results.
C3_SameResultTwice ==
    Len(results) >= 2 => results[1] = results[2]

----------------------------------------------------------------------------
(* Claims about look_at_rotation, checked under SpecLookAt *)

\* axis c (1 right, 2 up, 3 forward) of the returned matrix of instance x
Axis(x, c) == <<R[x][1][c], R[x][2][c], R[x][3][c]>>

\* the up axis and the target the call of the state uses
UpUsed == IF up_axis = <<>> THEN DefaultUp[1] ELSE up_axis[1]

AtUsed == IF at_point = <<>> THEN DefaultAt[1] ELSE at_point[1]

\* instance x looks exactly along the up axis: the camera is not at the
\* target, and cross(up, forward) is the zero vector
LooksAlongUp(x) ==
    /\ camera_position[x] # AtUsed
    /\ Cross(UpUsed, ZAxis(camera_position[x], AtUsed)) = <<0, 0, 0>>

\* unit length and orthogonality up to the rounding of the fixed point
\* (2 percent)
IsUnit(v) == Abs(Norm(v) - Scale) * 50 <= Scale

IsOrthogonal(a, b) == Abs(TDiv(Dot(a, b), Scale)) * 50 <= Scale

\* C4: for a camera that looks exactly along the up axis, the returned
\* matrix has a right axis that is not the zero vector, and its three axes
\* are unit-length and pairwise orthogonal.
C4_DegenerateFrameOrthonormal ==
    R # <<>> =>
        \A x \in 1..Len(R) :
            LooksAlongUp(x) =>
                /\ Axis(x, 1) # <<0, 0, 0>>
                /\ \A c \in 1..3 : IsUnit(Axis(x, c))
                /\ \A c, e \in 1..3 : c # e => IsOrthogonal(Axis(x, c), Axis(x, e))

\* For comparison: the frame is orthonormal whenever the camera is not at the
\* target and does not look along the up axis.
NonDegenerateOrthonormal ==
    R # <<>> =>
        \A x \in 1..Len(R) :
            (camera_position[x] # AtUsed /\ ~LooksAlongUp(x)) =>
                /\ \A c \in 1..3 : IsUnit(Axis(x, c))
                /\ \A c, e \in 1..3 : c # e => IsOrthogonal(Axis(x, c), Axis(x, e))

====
